---- MODULE Spec2Model ----
(***************************************************************************)
(* Model of kestra/scripts/aggregate_data.py: one process run that reads   *)
(* an incident (argv[1] or stdin), optionally loads the historical store   *)
(* /app/data/mock-incidents.json, filters it, builds the aggregated report *)
(* and prints it.                                                          *)
(*                                                                         *)
(* JSON values are tagged records, one field naming the Python type:       *)
(*   [dict |-> f]   f a function from the present keys to their values     *)
(*   [list |-> s]   s a sequence of JSON values                            *)
(*   [str  |-> s]   s the sequence of the string's characters              *)
(*   [num  |-> n]   [null |-> TRUE]                                        *)
(* The values stored under the keys of an incident have the types of the   *)
(* data model: id, service, timestamp are strings, logs is a sequence,     *)
(* metrics and context are functions from names to values.                 *)
(***************************************************************************)
EXTENDS Naturals, Sequences, FiniteSets, TLC

VARIABLES
    argv,                  \* sys.argv
    input,                 \* what argv[1] / stdin holds
    histFile,              \* what /app/data/mock-incidents.json holds
    pc,                    \* position in the script
    incident_data,         \* __main__: incident_data
    all_incidents,         \* aggregate_incident_data: all_incidents
    historical_incidents,  \* aggregate_incident_data: historical_incidents
    aggregated,            \* the report
    fileOpen,              \* the handle f of the historical file is open
    fileLog,               \* open / close events of the historical file
    stdout,                \* reports printed
    stderr,                \* lines printed to sys.stderr
    exitStatus             \* {} while running, {0} or {1} after

vars == <<argv, input, histFile, pc, incident_data, all_incidents,
          historical_incidents, aggregated, fileOpen, fileLog, stdout,
          stderr, exitStatus>>

-----------------------------------------------------------------------------
(* Bounds of the inputs *)

MaxStore == 4
MaxLogs == 4

-----------------------------------------------------------------------------
(* Python values *)

Unbound == [unbound |-> TRUE]
EmptyDict == [k \in {} |-> TRUE]

IsDict(v) == "dict" \in DOMAIN v
IsList(v) == "list" \in DOMAIN v
IsStr(v) == "str" \in DOMAIN v

\* d.get(k): None is <<>>, a value v is <<v>>
PyNone == <<>>
Get(d, k) == IF k \in DOMAIN d THEN <<d[k]>> ELSE PyNone

\* d.get(k, dflt)
GetDefault(d, k, dflt) == IF k \in DOMAIN d THEN d[k] ELSE dflt

Min(a, b) == IF a < b THEN a ELSE b

\* s[:n]
Slice(s, n) == SubSeq(s, 1, Min(n, Len(s)))

-----------------------------------------------------------------------------
(* aggregate_incident_data, lines 29-33: the historical filter *)

\* line 33: [:3]
HistoricalLimit == 3

\* line 44: [:3]
SampleSize == 3

\* what `for inc in all_incidents` yields: the elements of a list, the keys
\* of a dict (strings), the characters of a string
Iterable(all) == IsList(all) \/ IsDict(all) \/ IsStr(all)

RECURSIVE SetToSeq(_)
SetToSeq(S) ==
    IF S = {} THEN <<>>
    ELSE LET x == CHOOSE x \in S : TRUE IN <<x>> \o SetToSeq(S \ {x})

Iterate(all) ==
    IF IsList(all) THEN all.list
    ELSE IF IsDict(all) THEN [i \in 1..Cardinality(DOMAIN all.dict) |->
                                 [str |-> <<SetToSeq(DOMAIN all.dict)[i]>>]]
    ELSE [i \in 1..Len(all.str) |-> [str |-> <<all.str[i]>>]]

\* Similar without the comparison of the ids
SimilarByServiceOnly(inc, service, incident) ==
    Get(inc.dict, "service") = <<service>>

\* line 32: inc.get('service') == service and inc.get('id') != incident_data.get('id')
Similar(inc, service, incident) ==
    /\ Get(inc.dict, "service") = <<service>>
    /\ Get(inc.dict, "id") # Get(incident.dict, "id")

\* lines 30-32: the list comprehension, evaluated over every element
RECURSIVE Comprehension(_, _, _)
Comprehension(items, service, incident) ==
    IF items = <<>> THEN <<>>
    ELSE (IF Similar(Head(items), service, incident) THEN <<Head(items)>> ELSE <<>>)
         \o Comprehension(Tail(items), service, incident)

\* lines 29-32 raise: incident_data.get on a non-dict (AttributeError), iteration
\* of a non-iterable (TypeError), inc.get on a non-dict element (AttributeError)
FilterRaises(all, incident) ==
    \/ ~IsDict(incident)
    \/ ~Iterable(all)
    \/ \E i \in 1..Len(Iterate(all)) : ~IsDict(Iterate(all)[i])

\* lines 29-33: the value assigned to historical_incidents
FilterResult(all, incident) ==
    LET service == GetDefault(incident.dict, "service", "")
    IN  Slice(Comprehension(Iterate(all), service, incident), HistoricalLimit)

-----------------------------------------------------------------------------
(* aggregate_incident_data, lines 38-67: the report *)

TotalSources == 4

\* CurrentIncident with the logs cut to the sample in place
CurrentIncidentTruncated(incident) ==
    IF "logs" \in DOMAIN incident.dict
    THEN [dict |-> [incident.dict EXCEPT !["logs"] = Slice(@, SampleSize)]]
    ELSE incident

CurrentIncident(incident) == incident

\* LogsSource counting the sample instead of the logs
LogsSourceCountsSample(incident) ==
    [source |-> "current_incident",
     count  |-> Len(Slice(GetDefault(incident.dict, "logs", <<>>), SampleSize)),
     sample |-> Slice(GetDefault(incident.dict, "logs", <<>>), SampleSize)]

LogsSource(incident) ==
    [source |-> "current_incident",
     count  |-> Len(GetDefault(incident.dict, "logs", <<>>)),
     sample |-> Slice(GetDefault(incident.dict, "logs", <<>>), SampleSize)]

HistoricalSource(hist) ==
    [source    |-> "incident_database",
     count     |-> Len(hist),
     incidents |-> hist]

\* Summary counting the log entries as metric points
SummaryWrongMetrics(incident, hist) ==
    [total_sources         |-> TotalSources,
     log_entries           |-> Len(GetDefault(incident.dict, "logs", <<>>)),
     metric_points         |-> Len(GetDefault(incident.dict, "logs", <<>>)),
     similar_incidents     |-> Len(hist),
     aggregation_timestamp |-> GetDefault(incident.dict, "timestamp", "")]

Summary(incident, hist) ==
    [total_sources         |-> TotalSources,
     log_entries           |-> Len(GetDefault(incident.dict, "logs", <<>>)),
     metric_points         |-> Cardinality(DOMAIN GetDefault(incident.dict, "metrics", EmptyDict)),
     similar_incidents     |-> Len(hist),
     aggregation_timestamp |-> GetDefault(incident.dict, "timestamp", "")]

BuildReport(incident, hist) ==
    [current_incident |-> CurrentIncident(incident),
     data_sources |->
        [logs    |-> LogsSource(incident),
         metrics |-> [source |-> "monitoring_system",
                      data   |-> GetDefault(incident.dict, "metrics", EmptyDict)],
         context |-> [source |-> "service_registry",
                      data   |-> GetDefault(incident.dict, "context", EmptyDict)],
         historical_patterns |-> HistoricalSource(hist)],
     aggregation_summary |-> Summary(incident, hist)]

-----------------------------------------------------------------------------
(* The run *)

\* an uncaught exception: traceback on stderr, exit status 1
Crash ==
    /\ pc' = "crashed"
    /\ stderr' = Append(stderr, "Traceback")
    /\ exitStatus' = {1}

\* leaving the `with` block (normally or by an exception) closes f
CloseOnExit(log) == Append(log, "close")

\* lines 73-75: with open(sys.argv[1], 'r') as f: incident_data = json.load(f)
ReadIncidentFile ==
    /\ pc = "main"
    /\ Len(argv) > 1
    /\ IF "json" \in DOMAIN input
       THEN /\ incident_data' = input.json
            /\ pc' = "exists"
            /\ UNCHANGED <<stderr, exitStatus>>
       ELSE /\ Crash
            /\ UNCHANGED incident_data
    /\ UNCHANGED <<argv, input, histFile, all_incidents, historical_incidents,
                   aggregated, fileOpen, fileLog, stdout>>

\* lines 76-77: incident_data = json.load(sys.stdin)
ReadIncidentStdin ==
    /\ pc = "main"
    /\ ~(Len(argv) > 1)
    /\ IF "json" \in DOMAIN input
       THEN /\ incident_data' = input.json
            /\ pc' = "exists"
            /\ UNCHANGED <<stderr, exitStatus>>
       ELSE /\ Crash
            /\ UNCHANGED incident_data
    /\ UNCHANGED <<argv, input, histFile, all_incidents, historical_incidents,
                   aggregated, fileOpen, fileLog, stdout>>

\* CheckExists without the os.path.exists test
CheckExistsAlwaysOpen ==
    /\ pc = "exists"
    /\ historical_incidents' = <<>>
    /\ pc' = "open"
    /\ UNCHANGED <<argv, input, histFile, incident_data, all_incidents,
                   aggregated, fileOpen, fileLog, stdout, stderr, exitStatus>>

\* lines 21-24: historical_incidents = []; if os.path.exists(historical_path)
CheckExists ==
    /\ pc = "exists"
    /\ historical_incidents' = <<>>
    /\ pc' = IF histFile = [state |-> "absent"] THEN "build" ELSE "open"
    /\ UNCHANGED <<argv, input, histFile, incident_data, all_incidents,
                   aggregated, fileOpen, fileLog, stdout, stderr, exitStatus>>

\* line 26: with open(historical_path, 'r') as f
OpenHistorical ==
    /\ pc = "open"
    /\ IF histFile = [state |-> "unreadable"]
       THEN /\ pc' = "except"
            /\ UNCHANGED <<fileOpen, fileLog>>
       ELSE /\ pc' = "load"
            /\ fileOpen' = TRUE
            /\ fileLog' = Append(fileLog, "open r")
    /\ UNCHANGED <<argv, input, histFile, incident_data, all_incidents,
                   historical_incidents, aggregated, stdout, stderr, exitStatus>>

\* LoadHistorical with f.close() after json.load instead of a with block
LoadHistoricalLeak ==
    /\ pc = "load"
    /\ IF "json" \in DOMAIN histFile
       THEN /\ all_incidents' = histFile.json
            /\ pc' = "filter"
       ELSE /\ pc' = "except"
            /\ UNCHANGED all_incidents
    /\ UNCHANGED <<argv, input, histFile, incident_data, historical_incidents,
                   aggregated, fileOpen, fileLog, stdout, stderr, exitStatus>>

\* line 27: all_incidents = json.load(f)
LoadHistorical ==
    /\ pc = "load"
    /\ IF "json" \in DOMAIN histFile
       THEN /\ all_incidents' = histFile.json
            /\ pc' = "filter"
            /\ UNCHANGED <<fileOpen, fileLog>>
       ELSE /\ pc' = "except"
            /\ fileOpen' = FALSE
            /\ fileLog' = CloseOnExit(fileLog)
            /\ UNCHANGED all_incidents
    /\ UNCHANGED <<argv, input, histFile, incident_data, historical_incidents,
                   aggregated, stdout, stderr, exitStatus>>

\* the matches found before the first element that raises
RECURSIVE MatchesBeforeFailure(_, _, _)
MatchesBeforeFailure(items, service, incident) ==
    IF items = <<>> \/ ~IsDict(Head(items)) THEN <<>>
    ELSE (IF Similar(Head(items), service, incident) THEN <<Head(items)>> ELSE <<>>)
         \o MatchesBeforeFailure(Tail(items), service, incident)

\* FilterHistorical appending to historical_incidents match by match
FilterHistoricalPartial ==
    /\ pc = "filter"
    /\ IF FilterRaises(all_incidents, incident_data)
       THEN /\ pc' = "except"
            /\ historical_incidents' =
                  IF IsDict(incident_data) /\ Iterable(all_incidents)
                  THEN Slice(MatchesBeforeFailure(Iterate(all_incidents),
                                 GetDefault(incident_data.dict, "service", ""),
                                 incident_data), HistoricalLimit)
                  ELSE <<>>
       ELSE /\ pc' = "build"
            /\ historical_incidents' = FilterResult(all_incidents, incident_data)
    /\ fileOpen' = FALSE
    /\ fileLog' = CloseOnExit(fileLog)
    /\ UNCHANGED <<argv, input, histFile, incident_data, all_incidents,
                   aggregated, stdout, stderr, exitStatus>>

\* lines 29-33, then the end of the with block
FilterHistorical ==
    /\ pc = "filter"
    /\ IF FilterRaises(all_incidents, incident_data)
       THEN /\ pc' = "except"
            /\ UNCHANGED historical_incidents
       ELSE /\ pc' = "build"
            /\ historical_incidents' = FilterResult(all_incidents, incident_data)
    /\ fileOpen' = FALSE
    /\ fileLog' = CloseOnExit(fileLog)
    /\ UNCHANGED <<argv, input, histFile, incident_data, all_incidents,
                   aggregated, stdout, stderr, exitStatus>>

\* Warn re-raising the exception after the warning
WarnAndRaise ==
    /\ pc = "except"
    /\ pc' = "crashed"
    /\ stderr' = stderr \o <<"Warning", "Traceback">>
    /\ exitStatus' = {1}
    /\ UNCHANGED <<argv, input, histFile, incident_data, all_incidents,
                   historical_incidents, aggregated, fileOpen, fileLog, stdout>>

\* lines 34-35: except Exception as e: print("Warning: ...", file=sys.stderr)
Warn ==
    /\ pc = "except"
    /\ stderr' = Append(stderr, "Warning")
    /\ pc' = "build"
    /\ UNCHANGED <<argv, input, histFile, incident_data, all_incidents,
                   historical_incidents, aggregated, fileOpen, fileLog, stdout,
                   exitStatus>>

\* Build reporting a non-dict incident instead of raising
BuildAnything ==
    /\ pc = "build"
    /\ aggregated' = IF IsDict(incident_data)
                     THEN BuildReport(incident_data, historical_incidents)
                     ELSE [current_incident |-> incident_data]
    /\ pc' = "print"
    /\ UNCHANGED <<argv, input, histFile, incident_data, all_incidents,
                   historical_incidents, fileOpen, fileLog, stdout, stderr,
                   exitStatus>>

\* lines 38-69 and 79: aggregated = {...}; incident_data.get raises on a non-dict
Build ==
    /\ pc = "build"
    /\ IF IsDict(incident_data)
       THEN /\ aggregated' = BuildReport(incident_data, historical_incidents)
            /\ pc' = "print"
            /\ UNCHANGED <<stderr, exitStatus>>
       ELSE /\ Crash
            /\ UNCHANGED aggregated
    /\ UNCHANGED <<argv, input, histFile, incident_data, all_incidents,
                   historical_incidents, fileOpen, fileLog, stdout>>

\* line 80: print(json.dumps(aggregated, indent=2)), then the script ends
PrintReport ==
    /\ pc = "print"
    /\ stdout' = Append(stdout, aggregated)
    /\ pc' = "done"
    /\ exitStatus' = {0}
    /\ UNCHANGED <<argv, input, histFile, incident_data, all_incidents,
                   historical_incidents, aggregated, fileOpen, fileLog, stderr>>

Next ==
    \/ ReadIncidentFile
    \/ ReadIncidentStdin
    \/ CheckExists
    \/ OpenHistorical
    \/ LoadHistorical
    \/ FilterHistorical
    \/ Warn
    \/ Build
    \/ PrintReport

-----------------------------------------------------------------------------
(* Inputs *)

\* an optional field: <<>> when the key is absent, <<v>> when it holds v
Opt(S) == {<<>>} \cup {<<v>> : v \in S}

Field(k, opt) == IF opt = <<>> THEN EmptyDict ELSE k :> opt[1]

SeqsUpTo(S, n) == UNION {[1..m -> S] : m \in 0..n}

Incident(id, service, logs, metrics, context, timestamp) ==
    [dict |-> Field("id", id) @@ Field("service", service) @@ Field("logs", logs)
              @@ Field("metrics", metrics) @@ Field("context", context)
              @@ Field("timestamp", timestamp)]

HistRecord(id, service) == [dict |-> Field("id", id) @@ Field("service", service)]

\* JSON documents that are not an object
NotMappings == {[list |-> <<>>], [str |-> <<"x">>], [num |-> 7], [null |-> TRUE]}

\* what the incident source can hold when it does not parse
InputErrors == {[err |-> "missing"], [err |-> "unreadable"], [err |-> "badjson"]}

\* what the historical file can be when it holds no JSON
HistErrors == {[state |-> "unreadable"], [state |-> "badjson"]}

\* JSON documents that are not a list
NotLists == {[dict |-> EmptyDict], [dict |-> "inc-1" :> "payments"],
             [str |-> <<>>], [str |-> <<"x", "y">>], [num |-> 7], [null |-> TRUE]}

CtlIncidents ==
    {Incident(id, service, <<>>, <<>>, <<>>, <<>>) :
        id \in Opt({"inc-2"}), service \in Opt({"payments"})} \cup
    {Incident(<<"inc-2">>, <<"payments">>, <<<<"a", "b">>>>, <<"cpu" :> 90>>,
              <<>>, <<"T1">>)}

CtlElements ==
    {HistRecord(<<"inc-1">>, <<"payments">>), HistRecord(<<"inc-2">>, <<"payments">>),
     HistRecord(<<"inc-3">>, <<"billing">>), [num |-> 7]}

CtlStore == 2

CtlHistFiles ==
    {[state |-> "absent"]} \cup HistErrors
    \cup {[json |-> j] : j \in NotLists}
    \cup {[json |-> [list |-> s]] : s \in SeqsUpTo(CtlElements, CtlStore)}

Start ==
    /\ pc = "main"
    /\ incident_data = Unbound
    /\ all_incidents = Unbound
    /\ historical_incidents = Unbound
    /\ aggregated = Unbound
    /\ fileOpen = FALSE
    /\ fileLog = <<>>
    /\ stdout = <<>>
    /\ stderr = <<>>
    /\ exitStatus = {}

\* every kind of incident source against every kind of historical file
InitCtl ==
    /\ \/ /\ argv = <<"aggregate_data.py", "incident.json">>
          /\ input \in InputErrors \cup {[json |-> j] : j \in NotMappings \cup CtlIncidents}
       \/ /\ argv = <<"aggregate_data.py">>
          /\ input \in {[err |-> "badjson"]} \cup {[json |-> j] : j \in NotMappings \cup CtlIncidents}
    /\ histFile \in CtlHistFiles

Init == Start /\ InitCtl

Spec == Init /\ [][Next]_vars

\* --- historical stores in depth ---

HistIncidents ==
    {Incident(id, service, <<<<"a", "b">>>>, <<"cpu" :> 90>>, <<>>, <<"T1">>) :
        id \in Opt({"", "inc-2"}), service \in Opt({"", "payments"})}

HistElements ==
    {HistRecord(<<"inc-1">>, <<"payments">>), HistRecord(<<"inc-2">>, <<"payments">>),
     HistRecord(<<"inc-3">>, <<"billing">>), HistRecord(<<"inc-1">>, <<>>),
     HistRecord(<<>>, <<"payments">>), HistRecord(<<"">>, <<"">>), [num |-> 7]}

InitRichHist ==
    /\ argv = <<"aggregate_data.py">>
    /\ input \in {[json |-> j] : j \in HistIncidents}
    /\ histFile \in {[json |-> [list |-> s]] : s \in SeqsUpTo(HistElements, MaxStore)}

InitHist == Start /\ (InitCtl \/ InitRichHist)

SpecHist == InitHist /\ [][Next]_vars

\* --- incidents in depth ---

LogEntries == {"a", "b"}

MetricsValues ==
    {EmptyDict, "cpu" :> 90, "mem" :> 70, ("cpu" :> 90) @@ ("mem" :> 70)}

ContextValues == {EmptyDict, "region" :> "eu"}

IncIncidents ==
    {Incident(id, <<"payments">>, logs, metrics, context, timestamp) :
        id \in Opt({"inc-2"}),
        logs \in Opt(SeqsUpTo(LogEntries, MaxLogs)),
        metrics \in Opt(MetricsValues),
        context \in Opt(ContextValues),
        timestamp \in Opt({"", "T1"})}

IncHistFiles ==
    {[state |-> "absent"], [state |-> "badjson"],
     [json |-> [list |-> <<HistRecord(<<"inc-1">>, <<"payments">>),
                           HistRecord(<<"inc-2">>, <<"payments">>)>>]]}

InitRichInc ==
    /\ argv = <<"aggregate_data.py">>
    /\ input \in {[json |-> j] : j \in IncIncidents}
    /\ histFile \in IncHistFiles

InitInc == Start /\ (InitCtl \/ InitRichInc)

SpecInc == InitInc /\ [][Next]_vars

-----------------------------------------------------------------------------
(* Properties *)

\* the incident source parsed to a JSON object
ValidIncident == "json" \in DOMAIN input /\ IsDict(input.json)

\* the historical file parsed to a list of JSON objects
StoreIsRecords ==
    /\ "json" \in DOMAIN histFile
    /\ IsList(histFile.json)
    /\ \A i \in 1..Len(histFile.json.list) : IsDict(histFile.json.list[i])

Reported == aggregated # Unbound

Patterns == aggregated.data_sources.historical_patterns

WarningCount == Cardinality({i \in 1..Len(stderr) : stderr[i] = "Warning"})

\* the run goes on until it has printed the report
Completes == pc # "crashed" /\ (pc # "done" => ENABLED Next)

\* r carries the field k with the value v
HasValue(r, k, v) == k \in DOMAIN r /\ r[k] = v

\* the field k of r and of q differ: one has it and the other not, or both
\* have it with different values
FieldDiffers(r, q, k) ==
    \/ (k \in DOMAIN r) # (k \in DOMAIN q)
    \/ (k \in DOMAIN r /\ k \in DOMAIN q /\ r[k] # q[k])

\* the positions of the store records to select for the incident
MatchingPositions ==
    LET store == histFile.json.list
        inc   == input.json.dict
        service == IF "service" \in DOMAIN inc THEN inc.service ELSE ""
    IN  {i \in 1..Len(store) : /\ HasValue(store[i].dict, "service", service)
                               /\ FieldDiffers(store[i].dict, inc, "id")}

\* the j-th smallest element of a set of positions
NthPosition(P, j) == CHOOSE i \in P : Cardinality({m \in P : m < i}) = j - 1

\* C1: for a store that is a list of objects, historical_patterns.incidents is
\* the first min(3, k) of the k store records with the incident's service and
\* another id, in store order; so at most 3 entries, none of another service,
\* none with the incident's id; inc-2/payments against
\* [inc-1/payments, inc-2/payments, inc-3/billing] yields [inc-1].
C1_HistoricalFilter ==
    (Reported /\ ValidIncident /\ StoreIsRecords) =>
        LET store == histFile.json.list
            inc   == input.json.dict
            got   == Patterns.incidents
            P     == MatchingPositions
        IN  /\ Len(got) = (IF Cardinality(P) < 3 THEN Cardinality(P) ELSE 3)
            /\ \A j \in 1..Len(got) : got[j] = store[NthPosition(P, j)]
            /\ Len(got) <= 3
            /\ \A j \in 1..Len(got) :
                  /\ HasValue(got[j].dict, "service",
                              IF "service" \in DOMAIN inc THEN inc.service ELSE "")
                  /\ ~("id" \in DOMAIN inc /\ HasValue(got[j].dict, "id", inc.id))
            /\ (/\ HasValue(inc, "id", "inc-2") /\ HasValue(inc, "service", "payments")
                /\ store = <<HistRecord(<<"inc-1">>, <<"payments">>),
                             HistRecord(<<"inc-2">>, <<"payments">>),
                             HistRecord(<<"inc-3">>, <<"billing">>)>>)
               => got = <<HistRecord(<<"inc-1">>, <<"payments">>)>>

\* 4 records match, in a store whose records carry different ids, so the
\* result is cut to the first 3 of them
C1_Witness ==
    /\ pc = "done" /\ ValidIncident /\ StoreIsRecords
    /\ Cardinality(MatchingPositions) > 3
    /\ Len(Patterns.incidents) = 3
    /\ Patterns.incidents[1] # Patterns.incidents[2]
    /\ histFile.json.list[4] # Patterns.incidents[3]

\* C2 as stated: with the historical file absent, a run on a valid incident
\* ends with similar_incidents = 0, no fatal error and a warning on stderr.
C2_AbsentFileWarns ==
    (ValidIncident /\ histFile = [state |-> "absent"]) =>
        /\ Completes
        /\ pc = "done" => /\ aggregated.aggregation_summary.similar_incidents = 0
                          /\ WarningCount >= 1

\* C2 amended: with the historical file absent, a run on a valid incident
\* ends with similar_incidents = 0, no fatal error, exit status 0 and
\* nothing printed on stderr.
C2_AbsentFileSilent ==
    (ValidIncident /\ histFile = [state |-> "absent"]) =>
        /\ Completes
        /\ pc = "done" => /\ aggregated.aggregation_summary.similar_incidents = 0
                          /\ stdout = <<aggregated>>
                          /\ stderr = <<>>
                          /\ exitStatus = {0}

C2_Witness ==
    /\ pc = "done" /\ ValidIncident /\ histFile = [state |-> "absent"]
    /\ aggregated.aggregation_summary.similar_incidents = 0
    /\ stderr = <<>>

\* C3: when the historical file exists but cannot be read or is not JSON and
\* the incident is an object, the run prints one warning on stderr, goes on
\* with no historical matches (count 0, incidents []), prints the full report
\* on stdout and exits with the status of a run without the failure (0).
C3_BrokenFileRecovers ==
    /\ pc = "done" => exitStatus = {0}
    /\ (ValidIncident /\ histFile \in HistErrors) =>
          /\ Completes
          /\ pc = "done" =>
                /\ stderr = <<"Warning">>
                /\ Patterns.count = 0
                /\ Patterns.incidents = <<>>
                /\ stdout = <<[current_incident |-> input.json,
                               data_sources |->
                                  [logs |-> aggregated.data_sources.logs,
                                   metrics |-> aggregated.data_sources.metrics,
                                   context |-> aggregated.data_sources.context,
                                   historical_patterns |->
                                      [source |-> "incident_database",
                                       count |-> 0, incidents |-> <<>>]],
                               aggregation_summary |->
                                  [aggregated.aggregation_summary
                                     EXCEPT !.similar_incidents = 0]]>>

C3_Witness ==
    /\ pc = "done" /\ ValidIncident /\ histFile = [state |-> "badjson"]
    /\ stderr = <<"Warning">> /\ Len(stdout) = 1 /\ exitStatus = {0}
    /\ fileLog = <<"open r", "close">>

\* C4: when the incident source is missing, unreadable, not JSON or not an
\* object, the run ends in an uncaught error and prints no report, whatever
\* the historical file is.
C4_FatalInput ==
    ~ValidIncident =>
        /\ stdout = <<>>
        /\ aggregated = Unbound
        /\ pc \notin {"print", "done"}
        /\ pc # "crashed" => ENABLED Next
        /\ pc = "crashed" => /\ exitStatus = {1}
                             /\ stderr[Len(stderr)] = "Traceback"

\* a non-object incident went through the handler of the historical store
C4_Witness ==
    /\ pc = "crashed" /\ "json" \in DOMAIN input /\ ~IsDict(input.json)
    /\ StoreIsRecords /\ Len(histFile.json.list) > 0
    /\ stderr = <<"Warning", "Traceback">>
    /\ stdout = <<>>

\* C5: the report's current_incident equals the input record, and neither
\* the input record nor the loaded historical store is changed.
C5_InputUnchanged ==
    Reported =>
        /\ aggregated.current_incident = input.json
        /\ incident_data = input.json
        /\ all_incidents # Unbound => all_incidents = histFile.json

C5_Witness ==
    /\ pc = "done"
    /\ HasValue(input.json.dict, "logs", <<"a", "b", "b", "a">>)
    /\ aggregated.current_incident.dict.logs = <<"a", "b", "b", "a">>
    /\ all_incidents # Unbound /\ Patterns.count = 1

\* C6: logs.sample is the prefix of length min(3, len(logs)) of the logs in
\* their order, logs.count is the full length of the logs; with no logs the
\* sample is empty and the count 0.
C6_LogsSample ==
    (Reported /\ ValidIncident) =>
        LET inc  == input.json.dict
            logs == IF "logs" \in DOMAIN inc THEN inc.logs ELSE <<>>
            out  == aggregated.data_sources.logs
        IN  /\ out.count = Len(logs)
            /\ Len(out.sample) = (IF Len(logs) < 3 THEN Len(logs) ELSE 3)
            /\ \A i \in 1..Len(out.sample) : out.sample[i] = logs[i]
            /\ "logs" \notin DOMAIN inc => (out.sample = <<>> /\ out.count = 0)

C6_Witness ==
    /\ pc = "done"
    /\ HasValue(input.json.dict, "logs", <<"a", "b", "b", "a">>)
    /\ aggregated.data_sources.logs.sample = <<"a", "b", "b">>
    /\ aggregated.data_sources.logs.count = 4

\* C7: aggregation_summary agrees with the input and with data_sources:
\* total_sources 4, log_entries = logs.count = len(logs), metric_points = the
\* number of metrics, similar_incidents = historical_patterns.count =
\* len(incidents), aggregation_timestamp = the timestamp or ''; with no
\* historical file the count is 0.
C7_SummaryAgrees ==
    (Reported /\ ValidIncident) =>
        LET inc == input.json.dict
            sum == aggregated.aggregation_summary
        IN  /\ sum.total_sources = 4
            /\ sum.log_entries = aggregated.data_sources.logs.count
            /\ sum.log_entries = (IF "logs" \in DOMAIN inc THEN Len(inc.logs) ELSE 0)
            /\ sum.metric_points =
                  (IF "metrics" \in DOMAIN inc THEN Cardinality(DOMAIN inc.metrics) ELSE 0)
            /\ sum.similar_incidents = Patterns.count
            /\ sum.similar_incidents = Len(Patterns.incidents)
            /\ sum.aggregation_timestamp =
                  (IF "timestamp" \in DOMAIN inc THEN inc.timestamp ELSE "")
            /\ histFile = [state |-> "absent"] => Patterns.count = 0

C7_Witness ==
    /\ pc = "done"
    /\ aggregated.aggregation_summary.metric_points = 2
    /\ aggregated.aggregation_summary.log_entries = 3
    /\ aggregated.aggregation_summary.similar_incidents = 1
    /\ aggregated.aggregation_summary.aggregation_timestamp = "T1"

\* C8: in the historical filter an absent service or id counts as the empty
\* string, for the incident and for the store records alike.
C8_AbsentAsEmpty ==
    (Reported /\ ValidIncident /\ StoreIsRecords) =>
        LET store == histFile.json.list
            inc   == input.json.dict
            val(r, k) == IF k \in DOMAIN r THEN r[k] ELSE ""
            P == {i \in 1..Len(store) :
                     /\ val(store[i].dict, "service") = val(inc, "service")
                     /\ val(store[i].dict, "id") # val(inc, "id")}
            got == Patterns.incidents
        IN  /\ Len(got) = (IF Cardinality(P) < 3 THEN Cardinality(P) ELSE 3)
            /\ \A j \in 1..Len(got) : got[j] = store[NthPosition(P, j)]

\* C9: the historical file is opened at most once, read-only, and closed on
\* every path before the report is built; it is not open when the report is
\* printed or the process ends, and never opened when it does not exist.
C9_FileReleased ==
    /\ fileLog \in {<<>>, <<"open r">>, <<"open r", "close">>}
    /\ fileOpen <=> fileLog = <<"open r">>
    /\ fileOpen => pc \in {"load", "filter"}
    /\ (pc \in {"except", "build", "print", "done", "crashed"} \/ Reported) => ~fileOpen
    /\ histFile = [state |-> "absent"] => fileLog = <<>>
    /\ (pc \in {"build", "print", "done"} /\ "json" \in DOMAIN histFile)
          => fileLog = <<"open r", "close">>

\* the file was released on the way to the handler
C9_Witness ==
    /\ pc = "except" /\ histFile = [state |-> "badjson"]
    /\ fileLog = <<"open r", "close">> /\ ~fileOpen

\* a failure of the historical load: the file is unreadable or not JSON, the
\* document cannot be iterated, or iterating it yields something that is not
\* an object
LoadFails ==
    \/ histFile \in HistErrors
    \/ /\ "json" \in DOMAIN histFile
       /\ LET j == histFile.json
          IN  \/ "num" \in DOMAIN j \/ "null" \in DOMAIN j
              \/ (IsDict(j) /\ DOMAIN j.dict # {})
              \/ (IsStr(j) /\ j.str # <<>>)
              \/ (IsList(j) /\ \E i \in 1..Len(j.list) : ~IsDict(j.list[i]))

\* C10 as stated: every store that is unreadable, not JSON, or JSON but not a
\* list of objects leaves the match set empty with exactly one warning.
C10_AnyNonListWarns ==
    (pc = "done" /\ ValidIncident /\ histFile # [state |-> "absent"] /\ ~StoreIsRecords) =>
        /\ Patterns.incidents = <<>>
        /\ WarningCount = 1

\* C10 amended: when reading, parsing or filtering the store fails (also on a
\* document that cannot be iterated, a non-empty object or string, or a list
\* with one element that is not an object at any position), the match set is
\* empty, never the matches found before the failure, and exactly one warning
\* is printed; an empty object or empty string is filtered without a failure:
\* empty match set and no warning.
C10_AllOrNothing ==
    (pc = "done" /\ ValidIncident /\ histFile # [state |-> "absent"] /\ ~StoreIsRecords) =>
        /\ Patterns.incidents = <<>>
        /\ Patterns.count = 0
        /\ WarningCount = (IF LoadFails THEN 1 ELSE 0)
        /\ ~LoadFails <=> histFile \in {[json |-> [dict |-> EmptyDict]],
                                        [json |-> [str |-> <<>>]]}

\* three records match and an element that is not an object follows them
C10_Witness ==
    /\ pc = "done" /\ ValidIncident
    /\ "json" \in DOMAIN histFile /\ IsList(histFile.json)
    /\ Len(histFile.json.list) = 4
    /\ \A i \in 1..3 : histFile.json.list[i] = HistRecord(<<"inc-1">>, <<"payments">>)
    /\ histFile.json.list[4] = [num |-> 7]
    /\ HasValue(input.json.dict, "service", "payments")
    /\ HasValue(input.json.dict, "id", "inc-2")
    /\ Patterns.incidents = <<>>
    /\ stderr = <<"Warning">>

====
